---- MODULE Spec2Model ----
(***************************************************************************)
(* Model of pkg/kor/confimgmaps.go: the detection of config maps that no   *)
(* pod references, namespace by namespace (GetUnusedConfigmaps,            *)
(* processNamespaceCM, retrieveUsedCM, retrieveConfigMapNames).            *)
(*                                                                         *)
(* One step of the model is one call that leaves the process: the pod      *)
(* listing, the config-map listing, the deletion executor, and the writes  *)
(* of one namespace's entry and of the final output.  Everything the code  *)
(* computes between two such calls belongs to the step of the call before. *)
(*                                                                         *)
(* Spec runs GetUnusedConfigmaps over a list of namespaces whose contents  *)
(* come from a selection; SpecNamespace runs it over one namespace with    *)
(* every content up to the bounds, without listing failures or deletion.   *)
(***************************************************************************)
EXTENDS Integers, Sequences, FiniteSets, TLC

\* ------------------------------------------------------------------ bounds
\* Pods in one pod listing.
MaxPods == 1
\* Config maps in one config-map listing.
MaxCMs == 2
\* Namespaces in the namespace list (a prefix of NsUniverse).
MaxNamespaces == 2

\* ------------------------------------------------------------ input domains
\* A nil pointer / absent field of a pod spec.
Nil == "<nil>"

\* Config-map names of the model, in ascending byte order (the order of Go's
\* sort.Strings): '-' < 'a' < 'b', and "aws" < "cm-" < "kub".
NameUniverse == <<"aws-auth", "cm-a", "cm-b", "kube-root-ca.crt">>

Names == {NameUniverse[k] : k \in 1..Len(NameUniverse)}

\* Names that the pods of the model refer to.
RefNames == {"cm-a"}

\* Names whose config maps also come labelled or out of the age window.
VariedNames == {"cm-b"}

NsUniverse == <<"kube-system", "ns1", "ns2">>

\* ------------------------------------------------------- sequence helpers
Range(s) == {s[k] : k \in 1..Len(s)}

InSeq(x, s) == \E k \in 1..Len(s) : s[k] = x

RECURSIVE Flatten(_)
Flatten(ss) == IF ss = <<>> THEN <<>> ELSE Head(ss) \o Flatten(Tail(ss))

\* The non-nil entries of a sequence of optional names, in order.
NonNil(s) == SelectSeq(s, LAMBDA x : x # Nil)

\* Position of a name in ascending byte order.
Rank(n) == CHOOSE k \in 1..Len(NameUniverse) : NameUniverse[k] = n

\* strings.Compare(a, b) < 0
Less(a, b) == Rank(a) < Rank(b)

NoDuplicates(s) == \A j, k \in 1..Len(s) : j # k => s[j] # s[k]

StrictlySorted(s) == \A j, k \in 1..Len(s) : j < k => Less(s[j], s[k])

\* Insert x into the ascending sequence s, unless it is already there.
RECURSIVE InsertSorted(_, _)
InsertSorted(x, s) ==
    IF s = <<>> THEN <<x>>
    ELSE IF x = Head(s) THEN s
    ELSE IF Less(x, Head(s)) THEN <<x>> \o s
    ELSE <<Head(s)>> \o InsertSorted(x, Tail(s))

\* RemoveDuplicatesAndSort (kor helper): the distinct elements of the slice,
\* ascending.
RECURSIVE RemoveDuplicatesAndSort(_)
RemoveDuplicatesAndSort(slice) ==
    IF slice = <<>> THEN <<>>
    ELSE InsertSorted(Head(slice), RemoveDuplicatesAndSort(Tail(slice)))

\* Fault: the difference keeps the order of the listing.
CalculateResourceDifference_Unsorted(usedResourceNames, allResourceNames) ==
    SelectSeq(allResourceNames, LAMBDA n : ~InSeq(n, usedResourceNames))

\* CalculateResourceDifference (kor helper, the Difference Engine): the
\* candidates whose name is absent from the used names, ascending.
CalculateResourceDifference(usedResourceNames, allResourceNames) ==
    RemoveDuplicatesAndSort(
        SelectSeq(allResourceNames, LAMBDA n : ~InSeq(n, usedResourceNames)))

\* ------------------------------------------------------------------ pods
\* A pod spec, as far as retrieveUsedCM reads it.  A name-valued pointer is the
\* name or Nil; Projected is a pointer modelled as a sequence of length 0 (nil)
\* or 1; an env entry records whether ValueFrom is set and, if it is, the name
\* of its ConfigMapKeyRef (Nil for a secret or field reference).
PodOf(volumes, containers, initContainers) ==
    [Volumes |-> volumes, Containers |-> containers, InitContainers |-> initContainers]

VolumeOf(configMap, projected) == [ConfigMap |-> configMap, Projected |-> projected]

ContainerOf(env, envFrom) == [Env |-> env, EnvFrom |-> envFrom]

InitContainerOf(volumeMounts, env, envFrom) ==
    [VolumeMounts |-> volumeMounts, Env |-> env, EnvFrom |-> envFrom]

\* An emptyDir volume: neither a config map nor projected.
EmptyDirVolume == VolumeOf(Nil, <<>>)

\* env: {name: X, value: "literal"}
LiteralEnv == [ValueFrom |-> FALSE, ConfigMapKeyRef |-> Nil]

\* env: {valueFrom: {secretKeyRef: ...}}
SecretEnv == [ValueFrom |-> TRUE, ConfigMapKeyRef |-> Nil]

ConfigMapEnv(n) == [ValueFrom |-> TRUE, ConfigMapKeyRef |-> n]

\* A pod that names no config map anywhere; its optional fields are absent.
BarePod ==
    PodOf(<<EmptyDirVolume>>, <<ContainerOf(<<LiteralEnv, SecretEnv>>, <<Nil>>)>>, <<>>)

\* The attachment points of a pod spec that can carry a name.
AttachKinds ==
    {"volume", "projected", "env", "envFrom", "initMount", "initEnv", "initEnvFrom"}

\* A pod that carries the name n at one attachment point.
PodWith(kind, n) ==
    CASE kind = "volume" ->
           PodOf(<<VolumeOf(n, <<>>)>>, <<ContainerOf(<<LiteralEnv>>, <<>>)>>, <<>>)
      [] kind = "projected" ->
           PodOf(<<VolumeOf(Nil, <<[Sources |-> <<Nil, n>>]>>)>>,
                 <<ContainerOf(<<>>, <<>>)>>, <<>>)
      [] kind = "env" ->
           PodOf(<<>>, <<ContainerOf(<<LiteralEnv, ConfigMapEnv(n)>>, <<>>)>>, <<>>)
      [] kind = "envFrom" ->
           PodOf(<<>>, <<ContainerOf(<<>>, <<Nil, n>>)>>, <<>>)
      [] kind = "initMount" ->
           \* the init container mounts an emptyDir volume that is called n
           PodOf(<<EmptyDirVolume>>, <<ContainerOf(<<>>, <<>>)>>,
                 <<InitContainerOf(<<[Name |-> n, MountPath |-> "/data"]>>, <<>>, <<>>)>>)
      [] kind = "initEnv" ->
           PodOf(<<>>, <<ContainerOf(<<>>, <<>>)>>,
                 <<InitContainerOf(<<>>, <<SecretEnv, ConfigMapEnv(n)>>, <<>>)>>)
      [] kind = "initEnvFrom" ->
           PodOf(<<>>, <<ContainerOf(<<>>, <<>>)>>,
                 <<InitContainerOf(<<>>, <<>>, <<n>>)>>)

\* A pod that carries the name n at several attachment points, twice at some.
BusyPod(n) ==
    PodOf(<<VolumeOf(n, <<>>), VolumeOf(Nil, <<[Sources |-> <<n, n>>]>>)>>,
          <<ContainerOf(<<ConfigMapEnv(n)>>, <<n>>), ContainerOf(<<ConfigMapEnv(n)>>, <<>>)>>,
          <<InitContainerOf(<<>>, <<ConfigMapEnv(n)>>, <<>>)>>)

PodUniverse ==
    {BarePod}
    \cup {PodWith(kind, n) : kind \in AttachKinds, n \in RefNames}
    \cup {BusyPod(n) : n \in RefNames}

SeqsUpTo(S, max) == UNION {[1..len -> S] : len \in 0..max}

\* What a successful pod listing can return (pods.Items).
PodLists == SeqsUpTo(PodUniverse, MaxPods)

\* ------------------------------------------------------------ config maps
NoLabels == [k \in {} |-> ""]

\* A config map, as far as retrieveConfigMapNames reads it.  Age is the time
\* since CreationTimestamp, in whole units.
ConfigMapOf(name, labels, age) == [Name |-> name, Labels |-> labels, Age |-> age]

CMUniverse ==
    {ConfigMapOf(n, NoLabels, 2) : n \in Names}
    \cup {ConfigMapOf(n, "team" :> "legacy", 2) : n \in VariedNames}
    \cup {ConfigMapOf(n, "kor/used" :> "true", 2) : n \in VariedNames}
    \cup {ConfigMapOf(n, NoLabels, 1) : n \in VariedNames}
    \cup {ConfigMapOf(n, NoLabels, 3) : n \in VariedNames}

\* What a successful config-map listing can return (configmaps.Items): the API
\* server holds at most one config map of a name in a namespace.
CMLists ==
    {l \in SeqsUpTo(CMUniverse, MaxCMs) :
        \A j, k \in 1..Len(l) : j # k => l[j].Name # l[k].Name}

\* ---------------------------------------------------------- filter options
\* FilterOptions: the excluded label pairs, and the bounds of the age window
\* (0: no bound).
FilterChoices ==
    { [ExcludeLabels |-> {}, MinAge |-> 0, MaxAge |-> 0],
      [ExcludeLabels |-> {<<"team", "legacy">>}, MinAge |-> 2, MaxAge |-> 2] }

\* map lookup: the zero value for an absent key
LabelValue(labels, key) == IF key \in DOMAIN labels THEN labels[key] ELSE ""

\* HasExcludedLabel (kor helper): some label of the object has the value the
\* selector requires for its key.
HasExcludedLabel(labels, excludeLabels) ==
    \E kv \in excludeLabels : kv[1] \in DOMAIN labels /\ labels[kv[1]] = kv[2]

\* HasIncludedAge (kor helper): the object's age lies in the inclusion window.
HasIncludedAge(age, filterOpts) ==
    /\ filterOpts.MinAge = 0 \/ age >= filterOpts.MinAge
    /\ filterOpts.MaxAge = 0 \/ age <= filterOpts.MaxAge

\* ------------------------------------------------------ Reference Extractor
exceptionconfigmaps ==
    << [ResourceName |-> "aws-auth", Namespace |-> "kube-system"],
       [ResourceName |-> "kube-root-ca.crt", Namespace |-> "*"] >>

\* The names an Env list gives through ValueFrom.ConfigMapKeyRef, in order.
EnvConfigMapKeyRefs(env) ==
    LET hits == SelectSeq(env, LAMBDA e : e.ValueFrom /\ e.ConfigMapKeyRef # Nil)
    IN  [k \in 1..Len(hits) |-> hits[k].ConfigMapKeyRef]

\* volume.ConfigMap.Name of the pod's volumes
PodVolumesCM(pod) ==
    NonNil([k \in 1..Len(pod.Volumes) |-> pod.Volumes[k].ConfigMap])

\* source.ConfigMap.Name of the pod's projected volumes
PodVolumesProjectedCM(pod) ==
    Flatten([k \in 1..Len(pod.Volumes) |->
                IF Len(pod.Volumes[k].Projected) > 0
                THEN NonNil(pod.Volumes[k].Projected[1].Sources)
                ELSE <<>>])

PodEnvCM(pod) ==
    Flatten([k \in 1..Len(pod.Containers) |-> EnvConfigMapKeyRefs(pod.Containers[k].Env)])

PodEnvFromCM(pod) ==
    Flatten([k \in 1..Len(pod.Containers) |-> NonNil(pod.Containers[k].EnvFrom)])

\* volume.Name of the init containers' volume mounts
PodInitVolumeMounts(pod) ==
    Flatten([k \in 1..Len(pod.InitContainers) |->
                LET mounts == SelectSeq(pod.InitContainers[k].VolumeMounts,
                                        LAMBDA m : m.Name # "" /\ m.MountPath # "")
                IN  [j \in 1..Len(mounts) |-> mounts[j].Name]])

PodEnvFromInitContainerCM(pod) ==
    Flatten([k \in 1..Len(pod.InitContainers) |->
                EnvConfigMapKeyRefs(pod.InitContainers[k].Env)])

\* Fault: the wildcard namespace is not honoured.
ExemptionMatches_NoWildcard(resource, namespace) ==
    resource.Namespace = namespace

ExemptionMatches(resource, namespace) ==
    resource.Namespace = namespace \/ resource.Namespace = "*"

\* The names the exemption loop appends for a namespace, in order.
ExemptedNames(namespace) ==
    LET hits == SelectSeq(exceptionconfigmaps, LAMBDA r : ExemptionMatches(r, namespace))
    IN  [k \in 1..Len(hits) |-> hits[k].ResourceName]

\* retrieveUsedCM, given the items of a successful pod listing.
retrieveUsedCM(podItems, namespace) ==
    LET PerPod(F(_)) == Flatten([p \in 1..Len(podItems) |-> F(podItems[p])])
        VolumesAndMounts(pod) == PodVolumesCM(pod) \o PodInitVolumeMounts(pod)
    IN  [ volumesCM              |-> PerPod(VolumesAndMounts) \o ExemptedNames(namespace),
          volumesProjectedCM     |-> PerPod(PodVolumesProjectedCM),
          envCM                  |-> PerPod(PodEnvCM),
          envFromCM              |-> PerPod(PodEnvFromCM),
          envFromContainerCM     |-> PerPod(PodEnvFromCM),
          envFromInitContainerCM |-> PerPod(PodEnvFromInitContainerCM) ]

\* --------------------------------------------------------- Candidate Lister
\* Fault: the kor/used label is not looked at.
Skipped_NoUsedLabel(configmap, filterOpts) ==
    \/ HasExcludedLabel(configmap.Labels, filterOpts.ExcludeLabels)
    \/ ~HasIncludedAge(configmap.Age, filterOpts)

\* Whether retrieveConfigMapNames skips a config map.
Skipped(configmap, filterOpts) ==
    \/ HasExcludedLabel(configmap.Labels, filterOpts.ExcludeLabels)
    \/ ~HasIncludedAge(configmap.Age, filterOpts)
    \/ LabelValue(configmap.Labels, "kor/used") = "true"

\* retrieveConfigMapNames, given the items of a successful config-map listing.
retrieveConfigMapNames(cmItems, filterOpts) ==
    LET kept == SelectSeq(cmItems, LAMBDA c : ~Skipped(c, filterOpts))
    IN  [k \in 1..Len(kept) |-> kept[k].Name]

\* ---------------------------------------------------------- processNamespaceCM
\* Fault: envCM is left as retrieveUsedCM returned it.
DedupedRefs_EnvNotDeduped(refs) ==
    [ volumesCM              |-> RemoveDuplicatesAndSort(refs.volumesCM),
      volumesProjectedCM     |-> RemoveDuplicatesAndSort(refs.volumesProjectedCM),
      envCM                  |-> refs.envCM,
      envFromCM              |-> RemoveDuplicatesAndSort(refs.envFromCM),
      envFromContainerCM     |-> RemoveDuplicatesAndSort(refs.envFromContainerCM),
      envFromInitContainerCM |-> RemoveDuplicatesAndSort(refs.envFromInitContainerCM) ]

\* The six sequences after RemoveDuplicatesAndSort.
DedupedRefs(refs) ==
    [ volumesCM              |-> RemoveDuplicatesAndSort(refs.volumesCM),
      volumesProjectedCM     |-> RemoveDuplicatesAndSort(refs.volumesProjectedCM),
      envCM                  |-> RemoveDuplicatesAndSort(refs.envCM),
      envFromCM              |-> RemoveDuplicatesAndSort(refs.envFromCM),
      envFromContainerCM     |-> RemoveDuplicatesAndSort(refs.envFromContainerCM),
      envFromInitContainerCM |-> RemoveDuplicatesAndSort(refs.envFromInitContainerCM) ]

\* usedConfigMaps: the six sequences appended one after the other.
UsedConfigMaps(refs) ==
    refs.volumesCM \o refs.volumesProjectedCM \o refs.envCM \o refs.envFromCM
        \o refs.envFromContainerCM \o refs.envFromInitContainerCM

\* The value processNamespaceCM returns when both listings succeed.
processNamespaceCM(podItems, cmItems, namespace, filterOpts) ==
    CalculateResourceDifference(
        UsedConfigMaps(DedupedRefs(retrieveUsedCM(podItems, namespace))),
        retrieveConfigMapNames(cmItems, filterOpts))

\* ---------------------------------------------------------------- the run
VARIABLES
    cluster,         \* the API server: per namespace its pods and config maps
    opts,            \* Opts: [DeleteFlag]
    filterOpts,      \* FilterOptions of the run
    namespaces,      \* what SetNamespaceList returned
    idx,             \* position of the range loop in namespaces
    pc,              \* "loop", "listConfigMaps", "delete", "record", "done"
    namespace,       \* the loop variable: the namespace last taken up ("" before)
    pods,            \* pods.Items of that namespace's pod listing
    refs,            \* the six sequences of processNamespaceCM, deduplicated
    configmaps,      \* configmaps.Items of that namespace's config-map listing
    configMapNames,  \* the candidates
    usedConfigMaps,  \* first argument of CalculateResourceDifference
    unused,          \* what processNamespaceCM returned for that namespace
    diff,            \* diff of GetUnusedConfigmaps
    deleteArg,       \* the names DeleteResource was called with for that namespace
    deleteRet,       \* the names that call returned
    deleteErr,       \* whether that call returned an error
    deleteCalls,     \* calls of DeleteResource so far, per namespace
    response,        \* namespace -> ("ConfigMap" -> names)
    outputBuffer,    \* the FormatOutput blocks written so far
    skipped,         \* the "Failed to process namespace" lines on stderr
    events,          \* the calls made so far, in order
    result           \* what GetUnusedConfigmaps returned

vars == << cluster, opts, filterOpts, namespaces, idx, pc, namespace, pods, refs, configmaps,
           configMapNames, usedConfigMaps, unused, diff, deleteArg, deleteRet, deleteErr,
           deleteCalls, response, outputBuffer, skipped, events, result >>

Min(a, b) == IF a < b THEN a ELSE b

\* SetNamespaceList (kor helper): the namespaces to scan, each once.
NamespaceLists ==
    {SubSeq(NsUniverse, 1, n) : n \in 0..Min(MaxNamespaces, Len(NsUniverse))}

NoRefs ==
    [ volumesCM |-> <<>>, volumesProjectedCM |-> <<>>, envCM |-> <<>>, envFromCM |-> <<>>,
      envFromContainerCM |-> <<>>, envFromInitContainerCM |-> <<>> ]

NotReturned == [returned |-> FALSE, output |-> "", err |-> FALSE]

\* What the API server can hold in one namespace, up to the bounds.
Contents == [pods : PodLists, configmaps : CMLists]

PlainCM(n) == ConfigMapOf(n, NoLabels, 2)

\* A selection of namespace contents for runs over several namespaces: an
\* empty namespace; one config map named by a container env and one that is
\* not; two candidates that no pod names, listed in descending order; a config
\* map named by an init container's envFrom only; a config map marked as used;
\* a pod that names a config map many times next to a labelled config map.
SampleContents ==
    { [pods |-> <<>>, configmaps |-> <<>>],
      [pods |-> <<PodWith("env", "cm-a")>>,
       configmaps |-> <<PlainCM("cm-a"), PlainCM("cm-b")>>],
      [pods |-> <<BarePod>>,
       configmaps |-> <<PlainCM("cm-b"), PlainCM("aws-auth")>>],
      [pods |-> <<PodWith("initEnvFrom", "cm-a")>>,
       configmaps |-> <<PlainCM("cm-a"), PlainCM("kube-root-ca.crt")>>],
      [pods |-> <<>>,
       configmaps |-> <<ConfigMapOf("cm-b", "kor/used" :> "true", 2)>>],
      [pods |-> <<BusyPod("cm-a")>>,
       configmaps |-> <<ConfigMapOf("cm-b", "team" :> "legacy", 2), PlainCM("cm-a")>>] }

\* The namespaces of the runs over a single namespace.
SingleNamespaces == {"kube-system", "ns1"}

\* The state GetUnusedConfigmaps starts in, whatever its arguments.
InitLocals ==
    /\ idx = 1
    /\ pc = "loop"
    /\ namespace = ""
    /\ pods = <<>>
    /\ refs = NoRefs
    /\ configmaps = <<>>
    /\ configMapNames = <<>>
    /\ usedConfigMaps = <<>>
    /\ unused = <<>>
    /\ diff = <<>>
    /\ deleteArg = <<>>
    /\ deleteRet = <<>>
    /\ deleteErr = FALSE
    /\ deleteCalls = [n \in Range(namespaces) |-> 0]
    /\ response = [n \in {} |-> <<>>]
    /\ outputBuffer = <<>>
    /\ skipped = <<>>
    /\ events = <<>>
    /\ result = NotReturned

\* A run over a list of namespaces, each holding one of the sample contents.
Init ==
    /\ opts \in [DeleteFlag : BOOLEAN]
    /\ filterOpts \in FilterChoices
    /\ namespaces \in NamespaceLists
    /\ cluster \in [Range(namespaces) -> SampleContents]
    /\ InitLocals

\* A run without deletion over one namespace, which holds any content up to
\* the bounds.
InitNamespace ==
    /\ opts = [DeleteFlag |-> FALSE]
    /\ filterOpts \in FilterChoices
    /\ namespaces \in {<<ns>> : ns \in SingleNamespaces}
    /\ cluster \in [Range(namespaces) -> Contents]
    /\ InitLocals

Event(op, ns) == [op |-> op, namespace |-> ns]

\* The locals of one loop iteration, as a fresh iteration finds them.
FreshLocals ==
    /\ pods' = <<>>
    /\ refs' = NoRefs
    /\ configmaps' = <<>>
    /\ configMapNames' = <<>>
    /\ usedConfigMaps' = <<>>
    /\ unused' = <<>>
    /\ diff' = <<>>
    /\ deleteArg' = <<>>
    /\ deleteRet' = <<>>
    /\ deleteErr' = FALSE

\* Fault: a failed pod listing ends the run with the error.
ListPodsFail_Aborts ==
    /\ pc = "loop" /\ idx <= Len(namespaces)
    /\ namespace' = namespaces[idx]
    /\ FreshLocals
    /\ skipped' = Append(skipped, [namespace |-> namespaces[idx], call |-> "pods"])
    /\ events' = Append(events, Event("listPods", namespaces[idx]))
    /\ result' = [returned |-> TRUE, output |-> "", err |-> TRUE]
    /\ pc' = "done"
    /\ UNCHANGED << cluster, opts, filterOpts, namespaces, idx, deleteCalls, response, outputBuffer >>

\* The pod listing of the next namespace fails: retrieveUsedCM and
\* processNamespaceCM return the error, the loop logs it and continues.
ListPodsFail ==
    /\ pc = "loop" /\ idx <= Len(namespaces)
    /\ namespace' = namespaces[idx]
    /\ FreshLocals
    /\ skipped' = Append(skipped, [namespace |-> namespaces[idx], call |-> "pods"])
    /\ events' = Append(events, Event("listPods", namespaces[idx]))
    /\ idx' = idx + 1
    /\ pc' = "loop"
    /\ UNCHANGED << cluster, opts, filterOpts, namespaces, deleteCalls, response, outputBuffer, result >>

\* The pod listing succeeds: retrieveUsedCM gathers the six sequences and
\* processNamespaceCM deduplicates each.
ListPodsOK ==
    /\ pc = "loop" /\ idx <= Len(namespaces)
    /\ LET items == cluster[namespaces[idx]].pods
       IN  /\ pods' = items
           /\ refs' = DedupedRefs(retrieveUsedCM(items, namespaces[idx]))
    /\ namespace' = namespaces[idx]
    /\ configmaps' = <<>>
    /\ configMapNames' = <<>>
    /\ usedConfigMaps' = <<>>
    /\ unused' = <<>>
    /\ diff' = <<>>
    /\ deleteArg' = <<>>
    /\ deleteRet' = <<>>
    /\ deleteErr' = FALSE
    /\ events' = Append(events, Event("listPods", namespaces[idx]))
    /\ pc' = "listConfigMaps"
    /\ UNCHANGED << cluster, opts, filterOpts, namespaces, idx, deleteCalls, response, outputBuffer,
                    skipped, result >>

\* The config-map listing fails: as for the pod listing.
ListConfigMapsFail ==
    /\ pc = "listConfigMaps"
    /\ FreshLocals
    /\ skipped' = Append(skipped, [namespace |-> namespace, call |-> "configmaps"])
    /\ events' = Append(events, Event("listConfigMaps", namespace))
    /\ idx' = idx + 1
    /\ pc' = "loop"
    /\ UNCHANGED << cluster, opts, filterOpts, namespaces, namespace, deleteCalls, response,
                    outputBuffer, result >>

\* Fault: the deletion is passed over although the delete flag is set.
ListConfigMapsOK_SkipsDelete ==
    /\ pc = "listConfigMaps"
    /\ LET items == cluster[namespace].configmaps
       IN  /\ configmaps' = items
           /\ configMapNames' = retrieveConfigMapNames(items, filterOpts)
           /\ usedConfigMaps' = UsedConfigMaps(refs)
           /\ diff' = CalculateResourceDifference(
                          UsedConfigMaps(refs), retrieveConfigMapNames(items, filterOpts))
           /\ unused' = diff'
    /\ events' = Append(events, Event("listConfigMaps", namespace))
    /\ pc' = "record"
    /\ UNCHANGED << cluster, opts, filterOpts, namespaces, idx, namespace, pods, refs, deleteArg,
                    deleteRet, deleteErr, deleteCalls, response, outputBuffer, skipped,
                    result >>

\* The config-map listing succeeds: retrieveConfigMapNames filters the items,
\* processNamespaceCM appends the six sequences and returns the difference.
ListConfigMapsOK ==
    /\ pc = "listConfigMaps"
    /\ LET items == cluster[namespace].configmaps
       IN  /\ configmaps' = items
           /\ configMapNames' = retrieveConfigMapNames(items, filterOpts)
           /\ usedConfigMaps' = UsedConfigMaps(refs)
           /\ diff' = CalculateResourceDifference(
                          UsedConfigMaps(refs), retrieveConfigMapNames(items, filterOpts))
           /\ unused' = diff'
    /\ events' = Append(events, Event("listConfigMaps", namespace))
    /\ pc' = IF opts.DeleteFlag THEN "delete" ELSE "record"
    /\ UNCHANGED << cluster, opts, filterOpts, namespaces, idx, namespace, pods, refs, deleteArg,
                    deleteRet, deleteErr, deleteCalls, response, outputBuffer, skipped,
                    result >>

\* Every subsequence of s (the elements at a set of positions, in order).
RECURSIVE SubSeqs(_)
SubSeqs(s) ==
    IF s = <<>> THEN {<<>>}
    ELSE LET rest == SubSeqs(Tail(s))
         IN  rest \cup {<<Head(s)>> \o r : r \in rest}

\* Fault: the list DeleteResource returns goes to a shadowing variable, and
\* diff keeps the computed unused set.
Delete_Shadowed ==
    /\ pc = "delete"
    /\ \E residual \in SubSeqs(diff), failed \in BOOLEAN :
          /\ deleteRet' = residual
          /\ deleteErr' = failed
    /\ diff' = diff
    /\ deleteArg' = diff
    /\ deleteCalls' = [deleteCalls EXCEPT ![namespace] = @ + 1]
    /\ events' = Append(events, Event("delete", namespace))
    /\ pc' = "record"
    /\ UNCHANGED << cluster, opts, filterOpts, namespaces, idx, namespace, pods, refs, configmaps,
                    configMapNames, usedConfigMaps, unused, response, outputBuffer, skipped,
                    result >>

\* DeleteResource (kor helper, the Deletion Executor): called with diff, it
\* returns the names it did not delete and possibly an error; diff is assigned
\* the returned list either way.
Delete ==
    /\ pc = "delete"
    /\ \E residual \in SubSeqs(diff), failed \in BOOLEAN :
          /\ diff' = residual
          /\ deleteRet' = residual
          /\ deleteErr' = failed
    /\ deleteArg' = diff
    /\ deleteCalls' = [deleteCalls EXCEPT ![namespace] = @ + 1]
    /\ events' = Append(events, Event("delete", namespace))
    /\ pc' = "record"
    /\ UNCHANGED << cluster, opts, filterOpts, namespaces, idx, namespace, pods, refs, configmaps,
                    configMapNames, usedConfigMaps, unused, response, outputBuffer, skipped,
                    result >>

\* The namespace's block goes to the output buffer and its entry into the
\* response; the loop goes on.
Record ==
    /\ pc = "record"
    /\ outputBuffer' = Append(outputBuffer, [namespace |-> namespace, names |-> diff])
    /\ response' = (namespace :> [ConfigMap |-> diff]) @@ response
    /\ events' = Append(events, Event("record", namespace))
    /\ idx' = idx + 1
    /\ pc' = "loop"
    /\ UNCHANGED << cluster, opts, filterOpts, namespaces, namespace, pods, refs, configmaps,
                    configMapNames, usedConfigMaps, unused, diff, deleteArg, deleteRet,
                    deleteErr, deleteCalls, skipped, result >>

\* After the loop: json.MarshalIndent of the response (a map of maps of string
\* slices, which always marshals), then unusedResourceFormatter, whose error
\* is printed and not returned.
Finalize ==
    /\ pc = "loop" /\ idx > Len(namespaces)
    /\ \E formatted \in BOOLEAN :
          result' = [returned |-> TRUE,
                     output |-> IF formatted THEN "report" ELSE "",
                     err |-> FALSE]
    /\ events' = Append(events, Event("marshal", ""))
    /\ pc' = "done"
    /\ UNCHANGED << cluster, opts, filterOpts, namespaces, idx, namespace, pods, refs, configmaps,
                    configMapNames, usedConfigMaps, unused, diff, deleteArg, deleteRet,
                    deleteErr, deleteCalls, response, outputBuffer, skipped >>

Next ==
    \/ ListPodsFail
    \/ ListPodsOK
    \/ ListConfigMapsFail
    \/ ListConfigMapsOK
    \/ Delete
    \/ Record
    \/ Finalize

Spec == Init /\ [][Next]_vars

\* The steps of a run whose listings succeed and whose delete flag is unset,
\* up to the recording of the namespace.
NextNamespace ==
    \/ ListPodsOK
    \/ ListConfigMapsOK
    \/ Record

SpecNamespace == InitNamespace /\ [][NextNamespace]_vars

\* ======================================================================
\* Properties
\* ======================================================================

\* Both listings of `namespace` succeeded and its locals are still in place.
Computed ==
    \/ pc \in {"delete", "record"}
    \/ pc \in {"loop", "done"} /\ namespace \in DOMAIN response

\* `namespace` has its entry in the response.
Recorded == pc \in {"loop", "done"} /\ namespace \in DOMAIN response

PodSet == Range(pods)

EnvNames(env, X) ==
    \E k \in 1..Len(env) : env[k].ValueFrom /\ env[k].ConfigMapKeyRef = X

\* A volume of the pod is the config map X.
VolumeNames(pod, X) == \E k \in 1..Len(pod.Volumes) : pod.Volumes[k].ConfigMap = X

\* A projected-volume source of the pod is the config map X.
ProjectedNames(pod, X) ==
    \E k \in 1..Len(pod.Volumes) :
        \E p \in 1..Len(pod.Volumes[k].Projected) :
            InSeq(X, pod.Volumes[k].Projected[p].Sources)

ContainerEnvNames(pod, X) ==
    \E k \in 1..Len(pod.Containers) : EnvNames(pod.Containers[k].Env, X)

ContainerEnvFromNames(pod, X) ==
    \E k \in 1..Len(pod.Containers) : InSeq(X, pod.Containers[k].EnvFrom)

InitContainerEnvNames(pod, X) ==
    \E k \in 1..Len(pod.InitContainers) : EnvNames(pod.InitContainers[k].Env, X)

InitContainerEnvFromNames(pod, X) ==
    \E k \in 1..Len(pod.InitContainers) : InSeq(X, pod.InitContainers[k].EnvFrom)

\* The pod names the config map X: through a volume, a projected-volume
\* source, or an env or envFrom entry of a container or an init container.
PodReferences(pod, X) ==
    \/ VolumeNames(pod, X)
    \/ ProjectedNames(pod, X)
    \/ ContainerEnvNames(pod, X)
    \/ ContainerEnvFromNames(pod, X)
    \/ InitContainerEnvNames(pod, X)
    \/ InitContainerEnvFromNames(pod, X)

\* X is exempted for the namespace ns.
Exempted(X, ns) ==
    \E k \in 1..Len(exceptionconfigmaps) :
        /\ exceptionconfigmaps[k].ResourceName = X
        /\ exceptionconfigmaps[k].Namespace \in {ns, "*"}

\* The Candidate Lister passes over the config map.
FilteredOut(cm) ==
    \/ \E kv \in filterOpts.ExcludeLabels :
          kv[1] \in DOMAIN cm.Labels /\ cm.Labels[kv[1]] = kv[2]
    \/ filterOpts.MinAge # 0 /\ cm.Age < filterOpts.MinAge
    \/ filterOpts.MaxAge # 0 /\ cm.Age > filterOpts.MaxAge
    \/ "kor/used" \in DOMAIN cm.Labels /\ cm.Labels["kor/used"] = "true"

\* The names recorded for `namespace`, once it is recorded.
RecordedNames == response[namespace].ConfigMap

\* C1: in a namespace processed successfully, a config map that any pod names
\* (volume, projected-volume source, env or envFrom of a container or an init
\* container) is not in the unused set processNamespaceCM computed.
C1_ReferencedNeverUnused ==
    Computed =>
        \A pod \in PodSet, X \in Names : PodReferences(pod, X) => ~InSeq(X, unused)

\* C3: a name on the exemption list is never in the unused set of a namespace
\* its exemption matches: aws-auth never in kube-system, kube-root-ca.crt
\* never anywhere; neither as computed nor as recorded.
C3_ExemptedNeverUnused ==
    Computed =>
        /\ \A X \in Names : Exempted(X, namespace) => ~InSeq(X, unused)
        /\ namespace = "kube-system" => ~InSeq("aws-auth", unused)
        /\ ~InSeq("kube-root-ca.crt", unused)
        /\ Recorded =>
              \A X \in Names : Exempted(X, namespace) => ~InSeq(X, RecordedNames)

\* kube-system lists aws-auth and kube-root-ca.crt, no pod names either, and
\* the namespace is recorded.
C3_Witness ==
    /\ Recorded
    /\ namespace = "kube-system"
    /\ {configmaps[k].Name : k \in 1..Len(configmaps)} = {"aws-auth", "kube-root-ca.crt"}
    /\ Range(configMapNames) = {"aws-auth", "kube-root-ca.crt"}
    /\ \A pod \in PodSet, X \in Names : ~PodReferences(pod, X)
    /\ RecordedNames = <<>>

\* C4: a config map the Candidate Lister passes over (excluded label, age
\* outside the window, kor/used = "true") is never in the unused set of its
\* namespace, neither as computed nor as recorded.
C4_FilteredNeverUnused ==
    Computed =>
        \A k \in 1..Len(configmaps) :
            FilteredOut(configmaps[k]) =>
                /\ ~InSeq(configmaps[k].Name, unused)
                /\ Recorded => ~InSeq(configmaps[k].Name, RecordedNames)

\* A config map marked kor/used = "true" that no pod names is listed next to
\* an unmarked one, which is reported; the namespace is recorded.
C4_Witness ==
    /\ Recorded
    /\ ~opts.DeleteFlag
    /\ \E k \in 1..Len(configmaps) :
          /\ LabelValue(configmaps[k].Labels, "kor/used") = "true"
          /\ \A pod \in PodSet : ~PodReferences(pod, configmaps[k].Name)
          /\ ~InSeq(configmaps[k].Name, RecordedNames)
    /\ Len(RecordedNames) = 1

ConfigMapAttachment(pod, X) ==
    \/ VolumeNames(pod, X)
    \/ ProjectedNames(pod, X)
    \/ ContainerEnvNames(pod, X)
    \/ ContainerEnvFromNames(pod, X)
    \/ InitContainerEnvNames(pod, X)

\* C7: in a namespace processed successfully, every config map that passes
\* the filters, that no pod names through a config-map attachment and that is
\* not exempted for the namespace, is in the unused set.
C7_UnusedComplete ==
    Computed =>
        \A k \in 1..Len(configmaps) :
            ( /\ ~FilteredOut(configmaps[k])
              /\ \A pod \in PodSet : ~ConfigMapAttachment(pod, configmaps[k].Name)
              /\ ~Exempted(configmaps[k].Name, namespace) )
            => InSeq(configmaps[k].Name, unused)

\* The namespace of a "Failed to process namespace" line.
SkippedNamespaces == {skipped[k].namespace : k \in 1..Len(skipped)}

\* C2: a namespace whose pod listing or config-map listing failed has no key
\* in the response, every other namespace taken up so far has one once its
\* iteration is over, the run can always go on until it has returned (and
\* makes at most four calls per namespace before the final one), and it
\* returns after the last namespace, without an error.
C2_FailureIsolated ==
    /\ \A ns \in SkippedNamespaces : ns \notin DOMAIN response
    /\ Len(events) <= 4 * Len(namespaces) + 1
    /\ \A k \in 1..(idx - 1) :
          namespaces[k] \notin SkippedNamespaces => namespaces[k] \in DOMAIN response
    /\ pc # "done" => ENABLED Next
    /\ pc = "done" => /\ idx = Len(namespaces) + 1
                      /\ result.returned
                      /\ ~result.err

\* The first namespace fails at its pod listing, the second is recorded, and
\* the run has returned.
C2_Witness ==
    /\ pc = "done"
    /\ Len(namespaces) = 2
    /\ skipped = <<[namespace |-> namespaces[1], call |-> "pods"]>>
    /\ DOMAIN response = {namespaces[2]}
    /\ result.returned

\* C5: the list recorded for a namespace is the computed unused set when the
\* delete flag is unset, and the list DeleteResource returned when it is set,
\* with or without an error; an error of DeleteResource neither drops the
\* namespace's entry nor keeps the loop from taking up the namespaces left.
C5_RecordedList ==
    /\ Recorded =>
          RecordedNames = IF opts.DeleteFlag THEN deleteRet ELSE unused
    /\ (deleteErr /\ pc \in {"loop", "done"}) => namespace \in DOMAIN response
    /\ (deleteErr /\ pc = "loop" /\ idx <= Len(namespaces)) => ENABLED (ListPodsOK \/ ListPodsFail)
    /\ pc = "done" => idx = Len(namespaces) + 1

\* DeleteResource is handed two names, returns one of them with an error, and
\* that one is recorded; a later namespace is then recorded too.
C5_Witness ==
    /\ pc = "done"
    /\ opts.DeleteFlag
    /\ Len(namespaces) = 2
    /\ DOMAIN response = Range(namespaces)
    /\ Len(response[namespaces[1]].ConfigMap) = 1
    /\ deleteErr
    /\ Len(deleteArg) = 2
    /\ Len(deleteRet) = 1
    /\ RecordedNames = deleteRet

StepRank(op) ==
    CASE op = "listPods" -> 1
      [] op = "listConfigMaps" -> 2
      [] op = "delete" -> 3
      [] op = "record" -> 4
      [] op = "marshal" -> 5

\* How many pod listings precede the k-th call.
PodListingsBefore(k) ==
    Cardinality({j \in 1..(k - 1) : events[j].op = "listPods"})

\* C8: the namespaces are taken up once each, one at a time, in the order of
\* the list; within a namespace the pod listing comes first, then the
\* config-map listing, then (with the delete flag only) DeleteResource, then
\* the recording; the response is marshalled after the last namespace.
C8_SequentialOrder ==
    /\ \A k \in 1..Len(events) :
          LET e == events[k]
              prev == events[k - 1]
          IN  /\ e.op = "listPods" =>
                    /\ PodListingsBefore(k) < Len(namespaces)
                    /\ e.namespace = namespaces[PodListingsBefore(k) + 1]
                    /\ k > 1 => \/ prev.op = "record"
                                \/ prev.op \in {"listPods", "listConfigMaps"}
                                   /\ prev.namespace \in SkippedNamespaces
              /\ e.op = "listConfigMaps" =>
                    k > 1 /\ prev = Event("listPods", e.namespace)
              /\ e.op = "delete" =>
                    /\ opts.DeleteFlag
                    /\ k > 1 /\ prev = Event("listConfigMaps", e.namespace)
              /\ e.op = "record" =>
                    /\ k > 1
                    /\ prev = Event(IF opts.DeleteFlag THEN "delete" ELSE "listConfigMaps",
                                    e.namespace)
              /\ e.op = "marshal" =>
                    /\ k = Len(events)
                    /\ PodListingsBefore(k) = Len(namespaces)
                    /\ k > 1 => prev.op # "delete"
                    /\ pc = "done"
    /\ pc = "done" =>
          /\ Len(events) > 0
          /\ events[Len(events)].op = "marshal"
          /\ \A n \in 1..Len(namespaces) :
                Cardinality({k \in 1..Len(events) :
                                events[k] = Event("listPods", namespaces[n])}) = 1
    /\ \A ns \in DOMAIN response :
          Cardinality({k \in 1..Len(events) : events[k] = Event("record", ns)}) = 1

\* Two namespaces are processed in full with the delete flag set.
C8_Witness ==
    /\ pc = "done"
    /\ opts.DeleteFlag
    /\ Len(namespaces) = 2
    /\ DOMAIN response = Range(namespaces)
    /\ Len(events) = 9

Count(X, seq) == Cardinality({k \in 1..Len(seq) : seq[k] = X})

Bit(b) == IF b THEN 1 ELSE 0

\* An init container of the pod mounts a volume called X.
InitMountNames(pod, X) ==
    \E k \in 1..Len(pod.InitContainers) :
        \E j \in 1..Len(pod.InitContainers[k].VolumeMounts) :
            pod.InitContainers[k].VolumeMounts[j].Name = X

\* In how many of the six sequences of `namespace` the name X occurs.
SequencesHolding(X) ==
    Bit(\/ \E pod \in PodSet : VolumeNames(pod, X) \/ InitMountNames(pod, X)
        \/ Exempted(X, namespace))
    + Bit(\E pod \in PodSet : ProjectedNames(pod, X))
    + Bit(\E pod \in PodSet : ContainerEnvNames(pod, X))
    + 2 * Bit(\E pod \in PodSet : ContainerEnvFromNames(pod, X))
    + Bit(\E pod \in PodSet : InitContainerEnvNames(pod, X))

\* C9 as stated: no name occurs more than once in the list handed to
\* CalculateResourceDifference.
C9_UnionHasNoDuplicates ==
    Computed => NoDuplicates(usedConfigMaps)

\* C9: deduplication comes before the comparison, sequence by sequence: each
\* of the six sequences is ascending without a repeated name, and the list
\* handed to CalculateResourceDifference holds a name once for every sequence
\* that holds it (so at most six times, and twice for a container envFrom
\* name, which two sequences collect).
C9_DedupedPerSequence ==
    Computed =>
        /\ \A f \in DOMAIN refs : StrictlySorted(refs[f])
        /\ \A X \in Names : Count(X, usedConfigMaps) = SequencesHolding(X)
        /\ \A k \in 1..Len(usedConfigMaps) : usedConfigMaps[k] \in Names

\* A pod names cm-a twice through container env and through every other
\* attachment point read; the list holds cm-a six times.
C9_Witness ==
    /\ Computed
    /\ BusyPod("cm-a") \in PodSet
    /\ Count("cm-a", usedConfigMaps) = 6
    /\ refs.envCM = <<"cm-a">>

\* C10: DeleteResource is called for a namespace only with the delete flag
\* set and after both of its listings succeeded, at most once, and with
\* exactly the unused set computed for it; so it is never handed a name that
\* a pod names, that is exempted for the namespace or that the Candidate
\* Lister passed over.
C10_DeletionGuarded ==
    /\ \A ns \in DOMAIN deleteCalls :
          /\ deleteCalls[ns] <= 1
          /\ deleteCalls[ns] > 0 => opts.DeleteFlag /\ ns \notin SkippedNamespaces
    /\ (Computed /\ deleteCalls[namespace] > 0) =>
          /\ deleteArg = processNamespaceCM(pods, configmaps, namespace, filterOpts)
          /\ deleteArg = unused
          /\ \A X \in Range(deleteArg) :
                /\ \A pod \in PodSet : ~PodReferences(pod, X)
                /\ ~Exempted(X, namespace)
                /\ \A k \in 1..Len(configmaps) :
                      configmaps[k].Name = X => ~FilteredOut(configmaps[k])
    /\ events # <<>> /\ events[Len(events)].op = "delete" => deleteCalls[namespace] = 1

====
